---- MODULE Spec2Model ----
(***************************************************************************)
(* Model of ab_core.auth_flow_store: the AuthFlow table model (model.py)   *)
(* and the AuthFlowStore service (service.py) working on a caller-owned    *)
(* SQLAlchemy session.                                                     *)
(*                                                                         *)
(* Encoding of Python values:                                              *)
(*   - an Optional value is a sequence: None is << >>, a present value v   *)
(*     is <<v>>;                                                           *)
(*   - keyword arguments are a function from the names of the arguments    *)
(*     the caller supplied to their values (a Python kwargs dict);         *)
(*   - a row is a record with one field per column.                        *)
(***************************************************************************)
EXTENDS Integers, Sequences, FiniteSets, TLC

VARIABLES db_session, issued, calls, last, createdWith, touched, tasks

vars == <<db_session, issued, calls, last, createdWith, touched, tasks>>

(* ------------------------------ bounds -------------------------------- *)
\* rows created in one behaviour of Spec
MaxRows == 2
\* create, set_active and update calls in one behaviour of Spec and SpecTxn
MaxCalls == 3
\* rows created in one behaviour of SpecPage (one more than the default limit)
MaxPageRows == 51
\* up to this many matching rows every scan order of a SELECT is explored
MaxPermRows == 3

(* --------------------------- Python values ---------------------------- *)
None == << >>

Some(v) == <<v>>

\* Python truthiness of an Optional[str]: None and "" are falsy
Falsy(o) == o = None \/ o = Some("")

(* ------------------------------ model.py ------------------------------ *)
PKCE == "pkce"

STANDARD == "standard"

TokenIssuerType == {PKCE, STANDARD}

\* AuthFlow is declared with table=True
table == TRUE

UrlA == "https://app.example.com/oauth_redirect"

UrlB == "https://login.example.com"

WsUrl == "wss://browserless.example.com"

BadUrl == "not a url"

\* what pydantic's AnyHttpUrl accepts, among the strings used here
AnyHttpUrl == {UrlA, UrlB}

\* what pydantic's AnyUrl accepts, among the strings used here
AnyUrl == AnyHttpUrl \cup {WsUrl}

HttpUrlFields == {"redirect_uri", "authorize_url", "token_url", "idp_prefix", "browserless_base_url"}

OptHttpUrlFields == {"cdp_gui_base_url"}

AnyUrlFields == {"cdp_endpoint"}

UrlFields == HttpUrlFields \cup OptHttpUrlFields \cup AnyUrlFields

\* the declared type of a URL column accepts the value v of field f
WellFormed(f, v) ==
    IF f \in HttpUrlFields THEN v \in AnyHttpUrl
    ELSE IF f \in AnyUrlFields THEN v \in AnyUrl
    ELSE IF f \in OptHttpUrlFields THEN (v = None \/ v[1] \in AnyHttpUrl)
    ELSE TRUE

\* _require_secret_for_standard: TRUE when the validator raises ValueError
RequireSecretRaises(issuer_type, v) == issuer_type = STANDARD /\ Falsy(v)

\* the field validation of the AuthFlow class rejects the field values r
FieldValidationFails(r) ==
    \/ RequireSecretRaises(r.issuer_type, r.client_secret)
    \/ \E f \in UrlFields : ~WellFormed(f, r[f])

\* AuthFlow(**fields) raises ValidationError.  SQLModel runs the pydantic
\* validation only for models that are not tables; a table=True model is
\* built by setting the given values on the instance as they are, which is
\* what the repository's test relies on (the URL fields read back as the
\* plain strings passed in, and a PKCE row is built with client_secret=None
\* although the validator would read `values.get` of a ValidationInfo).
AuthFlowRaises(r) == (~table) /\ FieldValidationFails(r)

(* ------------------------------ session ------------------------------- *)
\* The caller's session is a record: the rows committed so far, the rows of
\* the open transaction (what a flush has written), and the objects that are
\* new or dirty and not yet flushed.
NoRows == [i \in {} |-> None]

\* db_session.add(row): the new object is pending until the next flush
SessionAdd(s, row) ==
    [s EXCEPT !.pending = [i \in DOMAIN s.pending \cup {row.id} |->
                              IF i = row.id THEN row ELSE s.pending[i]]]

\* an attribute assignment on a loaded object: the object is dirty until the
\* next flush
SessionDirty(s, row) == SessionAdd(s, row)

\* a flush that ends the transaction as well (db_session.commit())
SessionFlushAndCommit(s) ==
    LET rows == [i \in DOMAIN s.flushed \cup DOMAIN s.pending |->
                    IF i \in DOMAIN s.pending THEN s.pending[i] ELSE s.flushed[i]]
    IN  [committed |-> rows, flushed |-> rows, pending |-> NoRows]

\* db_session.flush(): pending objects are written to the rows of the open
\* transaction; what is committed stays as it is
SessionFlush(s) ==
    [s EXCEPT !.flushed = [i \in DOMAIN s.flushed \cup DOMAIN s.pending |->
                              IF i \in DOMAIN s.pending THEN s.pending[i] ELSE s.flushed[i]],
              !.pending = NoRows]

\* db_session.commit(), called by the owner of the session only
SessionCommit(s) ==
    LET f == SessionFlush(s) IN [f EXCEPT !.committed = f.flushed]

\* db_session.rollback(), called by the owner of the session only
SessionRollback(s) == [committed |-> s.committed, flushed |-> s.committed, pending |-> NoRows]

\* a lookup that falls back to the oldest row when the identifier is unknown
SessionGetOrOldest(s, flow_id) ==
    IF flow_id \in DOMAIN s.pending THEN Some(s.pending[flow_id])
    ELSE IF flow_id \in DOMAIN s.flushed THEN Some(s.flushed[flow_id])
    ELSE IF DOMAIN s.flushed # {}
         THEN Some(s.flushed[CHOOSE i \in DOMAIN s.flushed : \A j \in DOMAIN s.flushed : i <= j])
         ELSE None

\* db_session.get(AuthFlow, flow_id): the identity map first, then the rows
SessionGet(s, flow_id) ==
    IF flow_id \in DOMAIN s.pending THEN Some(s.pending[flow_id])
    ELSE IF flow_id \in DOMAIN s.flushed THEN Some(s.flushed[flow_id])
    ELSE None

(* ----------------------------- arguments ------------------------------ *)
\* the value of parameter f of a call: the argument, or the default
Param(kw, f, default) == IF f \in DOMAIN kw THEN kw[f] ELSE default

With(kw, f, v) == [k \in DOMAIN kw \cup {f} |-> IF k = f THEN v ELSE kw[k]]

Names == {"x", "new"}

FlowIds == 1 .. (MaxRows + 1)

Headers == [x_test |-> "1"]

Creator == "user-1"

\* the required arguments of create
BaseKw ==
    [name |-> "x", client_id |-> "cid", redirect_uri |-> UrlA, authorize_url |-> UrlA,
     token_url |-> UrlA, idp_prefix |-> UrlA, cdp_endpoint |-> WsUrl]

\* the required arguments and a well-formed browserless_base_url
ValidKw == With(BaseKw, "browserless_base_url", UrlA)

\* every optional argument of create given, none at its default
FullKw ==
    [name |-> "x", client_id |-> "cid2", redirect_uri |-> UrlB, authorize_url |-> UrlB,
     token_url |-> UrlB, idp_prefix |-> UrlB, cdp_endpoint |-> WsUrl,
     issuer_type |-> STANDARD, identity_provider |-> "Okta", response_type |-> "token",
     scope |-> "openid", client_secret |-> Some("s3cret"), timeout |-> 45,
     cdp_headers |-> Some(Headers), cdp_gui_base_url |-> Some(UrlB),
     browserless_base_url |-> UrlB, created_by |-> Some(Creator), is_active |-> FALSE]

\* a malformed value in every URL argument of create, for an inactive
\* version of another name
AllBadKw ==
    [name |-> "new", client_id |-> "cid", redirect_uri |-> BadUrl, authorize_url |-> BadUrl,
     token_url |-> BadUrl, idp_prefix |-> BadUrl, cdp_endpoint |-> BadUrl,
     cdp_gui_base_url |-> Some(BadUrl), browserless_base_url |-> BadUrl, is_active |-> FALSE]

CreateInputs ==
    {BaseKw, FullKw, AllBadKw,
     With(ValidKw, "issuer_type", STANDARD),
     With(With(ValidKw, "issuer_type", STANDARD), "client_secret", Some("")),
     With(With(ValidKw, "issuer_type", PKCE), "client_secret", Some("s3cret"))}

UpdateInputs ==
    {[client_secret |-> None, cdp_headers |-> None, cdp_gui_base_url |-> None, name |-> None],
     [name |-> Some("new")],
     [issuer_type |-> Some(STANDARD)],
     [issuer_type |-> Some(PKCE), identity_provider |-> Some("Okta"),
      response_type |-> Some("token"), scope |-> Some("openid"),
      client_id |-> Some("cid3"), redirect_uri |-> Some(UrlB), authorize_url |-> Some(UrlB),
      token_url |-> Some(UrlB), client_secret |-> Some("rotated")],
     [idp_prefix |-> Some(UrlB), timeout |-> Some(30), cdp_endpoint |-> Some(WsUrl),
      cdp_headers |-> Some(Headers), cdp_gui_base_url |-> Some(UrlA),
      browserless_base_url |-> Some(UrlB)],
     [client_secret |-> Some("")],
     [is_active |-> Some(FALSE)],
     [redirect_uri |-> Some(BadUrl), authorize_url |-> Some(BadUrl), token_url |-> Some(BadUrl),
      idp_prefix |-> Some(BadUrl), cdp_endpoint |-> Some(BadUrl),
      cdp_gui_base_url |-> Some(BadUrl), browserless_base_url |-> Some(BadUrl)]}

\* limit and offset of list_by_name: the defaults, or a page of one row
PageInputs ==
    {[k \in {} |-> None], [limit |-> 1], [limit |-> 1, offset |-> 1]}

(* ------------------------------ create -------------------------------- *)
\* create with the timeout default of another revision (30 instead of 60)
CreateParamsStaleDefault(kw) ==
    [f \in {"name", "issuer_type", "identity_provider", "response_type", "scope", "client_id",
            "redirect_uri", "authorize_url", "token_url", "client_secret", "idp_prefix",
            "timeout", "cdp_endpoint", "cdp_headers", "cdp_gui_base_url",
            "browserless_base_url", "created_by", "is_active"} |->
        IF f \in DOMAIN kw THEN kw[f]
        ELSE IF f = "issuer_type" THEN PKCE
        ELSE IF f = "identity_provider" THEN "Google"
        ELSE IF f = "response_type" THEN "code"
        ELSE IF f = "scope" THEN "openid email profile"
        ELSE IF f = "timeout" THEN 30
        ELSE IF f = "browserless_base_url" THEN ""
        ELSE IF f = "is_active" THEN TRUE
        ELSE None]

\* the parameters of create after Python has filled in the defaults
CreateParams(kw) ==
    [name |-> kw.name,
     issuer_type |-> Param(kw, "issuer_type", PKCE),
     identity_provider |-> Param(kw, "identity_provider", "Google"),
     response_type |-> Param(kw, "response_type", "code"),
     scope |-> Param(kw, "scope", "openid email profile"),
     client_id |-> kw.client_id,
     redirect_uri |-> kw.redirect_uri,
     authorize_url |-> kw.authorize_url,
     token_url |-> kw.token_url,
     client_secret |-> Param(kw, "client_secret", None),
     idp_prefix |-> kw.idp_prefix,
     timeout |-> Param(kw, "timeout", 60),
     cdp_endpoint |-> kw.cdp_endpoint,
     cdp_headers |-> Param(kw, "cdp_headers", None),
     cdp_gui_base_url |-> Param(kw, "cdp_gui_base_url", None),
     browserless_base_url |-> Param(kw, "browserless_base_url", ""),
     created_by |-> Param(kw, "created_by", None),
     is_active |-> Param(kw, "is_active", TRUE)]

\* AuthFlow(name=name, ...): the instance holds the values as passed; the id
\* and the creation time come from the lifecycle mixins (the creation time
\* is the logical time `now`)
AuthFlow(p, id, now) ==
    [f \in DOMAIN p \cup {"id", "created_at"} |->
        IF f = "id" THEN id ELSE IF f = "created_at" THEN now ELSE p[f]]

\* create that replaces the rows of the same name instead of adding a version
StageNewReplacing(s, row) ==
    LET kept == {i \in DOMAIN s.flushed : s.flushed[i].name # row.name}
    IN  SessionFlush(SessionAdd([s EXCEPT !.flushed = [i \in kept |-> s.flushed[i]]], row))

\* db_session.add(row); await db_session.flush()
StageNew(s, row) == SessionFlush(SessionAdd(s, row))

Result(op, args, result, raised, flushed) ==
    [op |-> op, args |-> args, result |-> result, raised |-> raised, flushed |-> flushed]

Create(kw) ==
    LET p == CreateParams(kw)
        row == AuthFlow(p, issued + 1, issued + 1)
    IN  IF AuthFlowRaises(p)
        THEN /\ last' = Result("create", kw, None, TRUE, FALSE)
             /\ UNCHANGED <<db_session, issued, createdWith, touched>>
        ELSE /\ db_session' = StageNew(db_session, row)
             /\ issued' = issued + 1
             /\ createdWith' = With(createdWith, row.id, kw)
             /\ last' = Result("create", kw, Some(row), FALSE, TRUE)
             /\ UNCHANGED touched

(* ------------------------------- reads -------------------------------- *)
GetById(flow_id) ==
    /\ last' = Result("get_by_id", [flow_id |-> flow_id], SessionGet(db_session, flow_id), FALSE, FALSE)
    /\ UNCHANGED <<db_session, issued, createdWith, touched>>

\* the filter written with truthiness tests (`if is_active:`), under which
\* is_active=False places no condition
WhereTruthy(row, name, is_active) ==
    /\ row.name = name
    /\ (is_active = Some(TRUE) => row.is_active = TRUE)

\* where = [AuthFlow.name == name] plus the is_active condition
Where(row, name, is_active) ==
    /\ row.name = name
    /\ (is_active = Some(TRUE) => row.is_active = TRUE)
    /\ (is_active = Some(FALSE) => row.is_active = FALSE)

\* the identifiers of the rows a SELECT with this WHERE clause matches
Matching(s, name, is_active) ==
    {i \in DOMAIN s.flushed : Where(s.flushed[i], name, is_active)}

Min(a, b) == IF a < b THEN a ELSE b

RECURSIVE Ascending(_)
Ascending(S) ==
    IF S = {} THEN << >>
    ELSE LET m == CHOOSE x \in S : \A y \in S : x <= y
         IN  <<m>> \o Ascending(S \ {m})

Reverse(q) == [k \in 1 .. Len(q) |-> q[Len(q) + 1 - k]]

\* the statement has no ORDER BY: the rows come in an order the database
\* chooses
ScanOrders(S) ==
    IF Cardinality(S) <= MaxPermRows
    THEN {q \in [1 .. Cardinality(S) -> S] : \A a, b \in 1 .. Cardinality(S) : q[a] = q[b] => a = b}
    ELSE {Ascending(S), Reverse(Ascending(S))}

\* a page that starts one row late
PageOffByOne(order, offset, limit) == SubSeq(order, offset + 2, Min(Len(order), offset + 1 + limit))

\* .offset(offset).limit(limit) applied to the rows in scan order
Page(order, offset, limit) == SubSeq(order, offset + 1, Min(Len(order), offset + limit))

RowsOf(s, ids) == [k \in 1 .. Len(ids) |-> s.flushed[ids[k]]]

\* the default of the limit parameter of list_by_name
DefaultLimit == 50

\* list(res.scalars()) of list_by_name for one scan order
ListResult(s, kw, order) ==
    RowsOf(s, Page(order, Param(kw, "offset", 0), Param(kw, "limit", DefaultLimit)))

\* res.scalar_one_or_none(): None for no row, the row for one row, and
\* MultipleResultsFound for more
ScalarOneOrNone(found) ==
    [raised |-> Len(found) > 1,
     result |-> IF Len(found) = 1 THEN Some(found[1]) ELSE None]

\* select(AuthFlow).where(...).limit(1), then scalar_one_or_none()
FirstResult(s, order) == ScalarOneOrNone(RowsOf(s, Page(order, 0, 1)))

GetByNameFirst(kw) ==
    /\ \E order \in ScanOrders(Matching(db_session, kw.name, Param(kw, "is_active", None))) :
           LET first == FirstResult(db_session, order)
           IN  last' = Result("get_by_name_first", kw, first.result, first.raised, FALSE)
    /\ UNCHANGED <<db_session, issued, createdWith, touched>>

ListByName(kw) ==
    /\ \E order \in ScanOrders(Matching(db_session, kw.name, Param(kw, "is_active", None))) :
           last' = Result("list_by_name", kw, ListResult(db_session, kw, order), FALSE, FALSE)
    /\ UNCHANGED <<db_session, issued, createdWith, touched>>

(* ----------------------------- mutations ------------------------------ *)
\* a deactivation that drops the stored secret as well
SetActiveRowScrub(row, is_active) ==
    [row EXCEPT !.is_active = is_active,
                !.client_secret = IF is_active THEN @ ELSE None]

\* row.is_active = is_active
SetActiveRow(row, is_active) == [row EXCEPT !.is_active = is_active]

\* the attribute assignments on a loaded row, left unflushed
StageDirtyUnflushed(s, row) == SessionDirty(s, row)

\* the attribute assignments on a loaded row, then await db_session.flush()
StageDirty(s, row) == SessionFlush(SessionDirty(s, row))

\* set_active that keeps one active version per name: activating a row
\* deactivates the other rows of its name
StageActiveExclusive(s, row, is_active) ==
    LET t == StageDirty(s, SetActiveRow(row, is_active))
    IN  [t EXCEPT !.flushed = [i \in DOMAIN t.flushed |->
            IF is_active /\ i # row.id /\ t.flushed[i].name = row.name
            THEN SetActiveRow(t.flushed[i], FALSE)
            ELSE t.flushed[i]]]

\* row.is_active = is_active; await db_session.flush()
StageActive(s, row, is_active) == StageDirty(s, SetActiveRow(row, is_active))

SetActive(flow_id, is_active) ==
    LET row == SessionGet(db_session, flow_id)
    IN  IF row = None
        THEN /\ last' = Result("set_active", [flow_id |-> flow_id, is_active |-> is_active], None, FALSE, FALSE)
             /\ UNCHANGED <<db_session, issued, createdWith, touched>>
        ELSE LET new == SetActiveRow(row[1], is_active)
             IN  /\ db_session' = StageActive(db_session, row[1], is_active)
                     /\ touched' = touched \cup {flow_id}
                 /\ last' = Result("set_active", [flow_id |-> flow_id, is_active |-> is_active], Some(new), FALSE, TRUE)
                 /\ UNCHANGED <<issued, createdWith>>

\* if p is not None: row.f = p, for a column that holds the value itself
Assign(old, p) == IF p # None THEN p[1] ELSE old

\* row.f = p without the `is not None` test
AssignNullableAlways(old, p) == p

\* if p is not None: row.f = p, for a nullable column
AssignNullable(old, p) == IF p # None THEN p ELSE old

\* the assignments of update, each under its `is not None` test
ApplyUpdate(row, kw) ==
    [row EXCEPT
        !.name = Assign(@, Param(kw, "name", None)),
        !.issuer_type = Assign(@, Param(kw, "issuer_type", None)),
        !.identity_provider = Assign(@, Param(kw, "identity_provider", None)),
        !.response_type = Assign(@, Param(kw, "response_type", None)),
        !.scope = Assign(@, Param(kw, "scope", None)),
        !.client_id = Assign(@, Param(kw, "client_id", None)),
        !.redirect_uri = Assign(@, Param(kw, "redirect_uri", None)),
        !.authorize_url = Assign(@, Param(kw, "authorize_url", None)),
        !.token_url = Assign(@, Param(kw, "token_url", None)),
        !.client_secret = AssignNullable(@, Param(kw, "client_secret", None)),
        !.idp_prefix = Assign(@, Param(kw, "idp_prefix", None)),
        !.timeout = Assign(@, Param(kw, "timeout", None)),
        !.cdp_endpoint = Assign(@, Param(kw, "cdp_endpoint", None)),
        !.cdp_headers = AssignNullable(@, Param(kw, "cdp_headers", None)),
        !.cdp_gui_base_url = AssignNullable(@, Param(kw, "cdp_gui_base_url", None)),
        !.browserless_base_url = Assign(@, Param(kw, "browserless_base_url", None)),
        !.is_active = Assign(@, Param(kw, "is_active", None))]

Update(flow_id, kw) ==
    LET row == SessionGet(db_session, flow_id)
        args == With(kw, "flow_id", flow_id)
    IN  IF row = None
        THEN /\ last' = Result("update", args, None, FALSE, FALSE)
             /\ UNCHANGED <<db_session, issued, createdWith, touched>>
        ELSE LET new == ApplyUpdate(row[1], kw)
             IN  /\ db_session' = StageDirty(db_session, new)
                     /\ touched' = touched \cup {flow_id}
                 /\ last' = Result("update", args, Some(new), FALSE, TRUE)
                 /\ UNCHANGED <<issued, createdWith>>

(* ------------------------------ caller -------------------------------- *)
\* the caller ends its unit of work with db_session.commit()
Commit ==
    /\ db_session' = SessionCommit(db_session)
    /\ last' = Result("commit", None, None, FALSE, FALSE)
    /\ UNCHANGED <<issued, createdWith, touched>>

\* the caller abandons its unit of work with db_session.rollback()
Rollback ==
    /\ db_session' = SessionRollback(db_session)
    /\ last' = Result("rollback", None, None, FALSE, FALSE)
    /\ UNCHANGED <<issued, createdWith, touched>>

(* ------------------------- concurrent calls --------------------------- *)
\* Two set_active calls run as two tasks.  A call is suspended where it
\* awaits: at the lookup and at the flush; the assignment between them is a
\* step of its own.  Each task works on the object it loaded, and what a
\* flush writes is visible to the other task at once.
Tasks == {1, 2}

Idle == [pc |-> "idle", flow_id |-> 0, is_active |-> FALSE, loaded |-> None, row |-> None, result |-> None]

Running(t) == tasks.run[t].pc \in {"lookup", "write", "flush"}

\* two callers enter set_active
StartPair(id1, v1, id2, v2) ==
    /\ \A t \in Tasks : ~Running(t)
    /\ tasks' = [started |-> db_session.flushed,
                 run |-> [t \in Tasks |->
                            [Idle EXCEPT !.pc = "lookup",
                                         !.flow_id = IF t = 1 THEN id1 ELSE id2,
                                         !.is_active = IF t = 1 THEN v1 ELSE v2]]]
    /\ UNCHANGED <<db_session, issued, calls, last, createdWith, touched>>

\* row = await db_session.get(AuthFlow, flow_id); if not row: return None
TaskLookup(t) ==
    LET me == tasks.run[t]
        row == SessionGet(db_session, me.flow_id)
    IN  /\ me.pc = "lookup"
        /\ tasks' = [tasks EXCEPT !.run[t] =
                        IF row = None
                        THEN [me EXCEPT !.pc = "done", !.result = None]
                        ELSE [me EXCEPT !.pc = "write", !.loaded = row, !.row = row]]
        /\ last' = IF row = None
                   THEN Result("set_active", [flow_id |-> me.flow_id, is_active |-> me.is_active],
                               None, FALSE, FALSE)
                   ELSE last
        /\ UNCHANGED <<db_session, issued, calls, createdWith, touched>>

\* row.is_active = is_active
TaskWrite(t) ==
    LET me == tasks.run[t]
    IN  /\ me.pc = "write"
        /\ tasks' = [tasks EXCEPT !.run[t] =
                        [me EXCEPT !.pc = "flush", !.row = Some(SetActiveRow(me.row[1], me.is_active))]]
        /\ UNCHANGED <<db_session, issued, calls, last, createdWith, touched>>

\* a flush that keeps one active version per name
FlushTaskExclusive(s, me) ==
    IF me.row = me.loaded THEN s
    ELSE [s EXCEPT !.flushed = [i \in DOMAIN s.flushed |->
            IF i = me.flow_id THEN SetActiveRow(s.flushed[i], me.is_active)
            ELSE IF me.is_active /\ s.flushed[i].name = me.row[1].name
                 THEN SetActiveRow(s.flushed[i], FALSE)
                 ELSE s.flushed[i]]]

\* await db_session.flush() of a task: the UPDATE carries the attribute the
\* task changed on its object, and nothing when the object is as loaded
FlushTask(s, me) ==
    IF me.row = me.loaded THEN s
    ELSE StageActive(s, s.flushed[me.flow_id], me.is_active)

\* await db_session.flush(); return row
TaskFlush(t) ==
    LET me == tasks.run[t]
    IN  /\ me.pc = "flush"
        /\ db_session' = FlushTask(db_session, me)
        /\ tasks' = [tasks EXCEPT !.run[t] = [me EXCEPT !.pc = "done", !.result = me.row]]
        /\ touched' = touched \cup {me.flow_id}
        /\ last' = Result("set_active", [flow_id |-> me.flow_id, is_active |-> me.is_active],
                          me.row, FALSE, TRUE)
        /\ UNCHANGED <<issued, calls, createdWith>>

TaskStep(t) == TaskLookup(t) \/ TaskWrite(t) \/ TaskFlush(t)

(* --------------------------- specification ---------------------------- *)
Init ==
    /\ db_session = [committed |-> NoRows, flushed |-> NoRows, pending |-> NoRows]
    /\ issued = 0
    /\ calls = 0
    /\ last = Result("init", None, None, FALSE, FALSE)
    /\ createdWith = NoRows
    /\ touched = {}
    /\ tasks = [started |-> NoRows, run |-> [t \in Tasks |-> Idle]]

ActiveFilters == {None, Some(TRUE), Some(FALSE)}

\* the arguments of the list_by_name calls: a filter with the default page,
\* and the pages of one row
QueryInputs ==
    {[name |-> "x", is_active |-> a] : a \in ActiveFilters}
    \cup {With(page, "name", "x") : page \in PageInputs}
    \cup {[name |-> "new"]}

FirstInputs ==
    {[name |-> "x", is_active |-> a] : a \in ActiveFilters} \cup {[name |-> "new"]}

\* the caller makes one more create, set_active or update call
Call == calls < MaxCalls /\ calls' = calls + 1

\* the reads of Spec: a name with and without rows, with and without filter
ReadInputs == {[name |-> "x"], [name |-> "new", is_active |-> Some(TRUE)]}

\* the store's operations, on every kind of field value
Next ==
    \/ \E kw \in CreateInputs : issued < MaxRows /\ Call /\ Create(kw) /\ UNCHANGED tasks
    \/ \E flow_id \in FlowIds : GetById(flow_id) /\ UNCHANGED <<calls, tasks>>
    \/ \E kw \in ReadInputs : GetByNameFirst(kw) /\ UNCHANGED <<calls, tasks>>
    \/ \E kw \in ReadInputs : ListByName(kw) /\ UNCHANGED <<calls, tasks>>
    \/ \E flow_id \in FlowIds, v \in BOOLEAN : Call /\ SetActive(flow_id, v) /\ UNCHANGED tasks
    \/ \E flow_id \in FlowIds, kw \in UpdateInputs : Call /\ Update(flow_id, kw) /\ UNCHANGED tasks

Spec == Init /\ [][Next]_vars

TxnCreateInputs == {BaseKw, FullKw}

TxnUpdateInputs == {[name |-> Some("new")], [client_secret |-> Some("rotated"), timeout |-> Some(30)]}

\* the store's operations and the caller's transaction control
NextTxn ==
    \/ \E kw \in TxnCreateInputs : issued < MaxRows /\ Call /\ Create(kw) /\ UNCHANGED tasks
    \/ \E flow_id \in FlowIds : GetById(flow_id) /\ UNCHANGED <<calls, tasks>>
    \/ \E kw \in FirstInputs : GetByNameFirst(kw) /\ UNCHANGED <<calls, tasks>>
    \/ \E kw \in QueryInputs : ListByName(kw) /\ UNCHANGED <<calls, tasks>>
    \/ \E flow_id \in FlowIds, v \in BOOLEAN : Call /\ SetActive(flow_id, v) /\ UNCHANGED tasks
    \/ \E flow_id \in FlowIds, kw \in TxnUpdateInputs : Call /\ Update(flow_id, kw) /\ UNCHANGED tasks
    \/ Commit /\ UNCHANGED <<calls, tasks>>
    \/ Rollback /\ UNCHANGED <<calls, tasks>>

SpecTxn == Init /\ [][NextTxn]_vars

\* the versions whose flag or name the calls of SpecPage change
PageTargets == {1, 2}

PageUpdateInputs == {[name |-> Some("new")], [name |-> Some("x")]}

\* the store's operations on many versions of one flow: any number of calls,
\* the rows differ in name and active flag only
NextPage ==
    \/ issued < MaxPageRows /\ Create(BaseKw) /\ UNCHANGED <<calls, tasks>>
    \/ \E flow_id \in FlowIds : GetById(flow_id) /\ UNCHANGED <<calls, tasks>>
    \/ \E kw \in FirstInputs : GetByNameFirst(kw) /\ UNCHANGED <<calls, tasks>>
    \/ \E kw \in QueryInputs : ListByName(kw) /\ UNCHANGED <<calls, tasks>>
    \/ \E flow_id \in PageTargets, v \in BOOLEAN : SetActive(flow_id, v) /\ UNCHANGED <<calls, tasks>>
    \/ \E kw \in PageUpdateInputs : Update(1, kw) /\ UNCHANGED <<calls, tasks>>

SpecPage == Init /\ [][NextPage]_vars

ConcCreateInputs == {BaseKw, With(BaseKw, "is_active", FALSE)}

\* the identifiers the concurrent calls ask for: two rows and a miss
ConcTargets == {1, 2, 3}

\* rows are created while no call is running, which ends the round of the
\* pair before; then pairs of set_active calls run with their steps
\* interleaved in every order
NextConc ==
    \/ \E kw \in ConcCreateInputs :
          /\ issued < MaxRows
          /\ \A t \in Tasks : ~Running(t)
          /\ Create(kw)
          /\ tasks' = [started |-> NoRows, run |-> [t \in Tasks |-> Idle]]
          /\ UNCHANGED calls
    \/ \E id1, id2 \in ConcTargets, v1, v2 \in BOOLEAN : StartPair(id1, v1, id2, v2)
    \/ \E t \in Tasks : TaskLookup(t)
    \/ \E t \in Tasks : TaskWrite(t)
    \/ \E t \in Tasks : TaskFlush(t)

SpecConc == Init /\ [][NextConc]_vars

(* ------------------------------- claims ------------------------------- *)
Rows == db_session.flushed

StoreOps == {"create", "get_by_id", "get_by_name_first", "list_by_name", "set_active", "update"}

\* the columns create takes from its arguments
ArgFields ==
    {"name", "issuer_type", "identity_provider", "response_type", "scope", "client_id",
     "redirect_uri", "authorize_url", "token_url", "client_secret", "idp_prefix", "timeout",
     "cdp_endpoint", "cdp_headers", "cdp_gui_base_url", "browserless_base_url", "created_by",
     "is_active"}

\* the issuer type and the secret a create call asks for
AskedIssuer(kw) == IF "issuer_type" \in DOMAIN kw THEN kw.issuer_type ELSE PKCE

AskedSecret(kw) == IF "client_secret" \in DOMAIN kw THEN kw.client_secret ELSE None

\* every URL argument of the call is well formed
UrlArgsWellFormed(kw) ==
    /\ \A f \in (HttpUrlFields \cup AnyUrlFields) \cap DOMAIN kw : WellFormed(f, kw[f])
    /\ \A f \in OptHttpUrlFields \cap DOMAIN kw : WellFormed(f, kw[f])
    /\ "browserless_base_url" \in DOMAIN kw

\* C1: every create call with issuer_type=STANDARD and an absent or empty
\* client_secret fails with a validation error and stages no row; every
\* create call with issuer_type=PKCE and otherwise valid fields succeeds,
\* with or without a client_secret.
C1_StandardRequiresSecret ==
    /\ last.op = "create" =>
          /\ (AskedIssuer(last.args) = STANDARD /\ Falsy(AskedSecret(last.args)))
                => (last.raised /\ ~last.flushed /\ last.result = None)
          /\ (AskedIssuer(last.args) = PKCE /\ UrlArgsWellFormed(last.args))
                => (~last.raised /\ last.result # None)
    /\ \A id \in DOMAIN createdWith :
          ~(AskedIssuer(createdWith[id]) = STANDARD /\ Falsy(AskedSecret(createdWith[id])))

\* the defaults the data model states for the optional arguments of create
StatedDefault(f) ==
    IF f = "issuer_type" THEN PKCE
    ELSE IF f = "identity_provider" THEN "Google"
    ELSE IF f = "response_type" THEN "code"
    ELSE IF f = "scope" THEN "openid email profile"
    ELSE IF f = "timeout" THEN 60
    ELSE IF f = "browserless_base_url" THEN ""
    ELSE IF f = "is_active" THEN TRUE
    ELSE None

Expected(kw, f) == IF f \in DOMAIN kw THEN kw[f] ELSE StatedDefault(f)

\* C2: a get_by_id with the identifier a create returned, before any update
\* or set_active on that identifier and whatever was done to other
\* identifiers, returns a row whose every field is the value passed to
\* create, or the stated default of an omitted optional field.
C2_RoundTrip ==
    (/\ last.op = "get_by_id"
     /\ last.args.flow_id \in DOMAIN createdWith
     /\ last.args.flow_id \notin touched)
    => /\ last.result # None
       /\ last.result[1].id = last.args.flow_id
       /\ \A f \in ArgFields :
             last.result[1][f] = Expected(createdWith[last.args.flow_id], f)

\* a row created with the required arguments only is read back after another
\* row was created and changed
C2_Witness ==
    /\ last.op = "get_by_id"
    /\ last.args.flow_id \in DOMAIN createdWith
    /\ last.args.flow_id \notin touched
    /\ createdWith[last.args.flow_id] = BaseKw
    /\ touched # {}
    /\ last.result # None

\* the columns of a row
Fields == ArgFields \cup {"id", "created_at"}

\* the step is a call of the store operation op
Called(op) == last'.op = op /\ vars' # vars

\* C3: set_active(flow_id, v) on an existing row sets that row's active flag
\* to v and changes nothing else: every other field of the row and every
\* field of every other row, of the same name or not, stay as they were.
C3_SetActiveFrame ==
    [][(Called("set_active") /\ last'.args.flow_id \in DOMAIN Rows)
        => LET id == last'.args.flow_id
           IN  /\ DOMAIN Rows' = DOMAIN Rows
               /\ Rows'[id].is_active = last'.args.is_active
               /\ \A f \in Fields \ {"is_active"} : Rows'[id][f] = Rows[id][f]
               /\ \A j \in DOMAIN Rows \ {id} : Rows'[j] = Rows[j]
               /\ last'.result = Some(Rows'[id])]_vars

\* set_active has just activated a row whose sibling of the same name is
\* active as well, and another sibling could be inactive
C3_Witness ==
    /\ last.op = "set_active"
    /\ last.result # None
    /\ last.args.is_active = TRUE
    /\ \E j \in DOMAIN Rows \ {last.args.flow_id} :
          /\ Rows[j].name = Rows[last.args.flow_id].name
          /\ Rows[j].is_active = TRUE

\* the columns update can write
UpdateFields == ArgFields \ {"created_by"}

NullableFields == {"client_secret", "cdp_headers", "cdp_gui_base_url"}

C6_LookupMiss ==
    [][((\/ /\ (Called("get_by_id") \/ Called("set_active") \/ Called("update"))
            /\ last'.args.flow_id \notin DOMAIN Rows
         \/ /\ Called("get_by_name_first")
            /\ \A i \in DOMAIN Rows :
                  \/ Rows[i].name # last'.args.name
                  \/ /\ "is_active" \in DOMAIN last'.args
                     /\ last'.args.is_active # None
                     /\ Rows[i].is_active # last'.args.is_active[1]))
        => /\ last'.result = None
           /\ ~last'.raised
           /\ ~last'.flushed
           /\ db_session' = db_session]_vars

\* an update by an identifier that no row has although rows are stored
C6_Witness ==
    /\ last.op = "update"
    /\ last.args.flow_id \notin DOMAIN Rows
    /\ Rows # NoRows
    /\ last.result = None

\* C9: no row is ever destroyed by the store: over any sequence of store
\* calls the set of stored identifiers never shrinks; only a successful
\* create adds to it, and it adds exactly one identifier different from
\* every existing one, also when the name is the name of an existing row.
C9_NoRowDestroyed ==
    [][/\ DOMAIN Rows \subseteq DOMAIN Rows'
       /\ (DOMAIN Rows' # DOMAIN Rows) => (last'.op = "create" /\ ~last'.raised)
       /\ (Called("create") /\ ~last'.raised)
             => /\ last'.result # None
                /\ last'.result[1].id \notin DOMAIN Rows
                /\ DOMAIN Rows' = DOMAIN Rows \cup {last'.result[1].id}
                /\ \A j \in DOMAIN Rows : Rows'[j] = Rows[j]
       /\ \A op \in StoreOps \ {"create"} : Called(op) => DOMAIN Rows' = DOMAIN Rows]_vars

\* a create has just added a second row under the name of an existing row
C9_Witness ==
    /\ last.op = "create"
    /\ last.result # None
    /\ \E j \in DOMAIN Rows \ {last.result[1].id} : Rows[j].name = last.result[1].name

\* some URL argument of the call is malformed
SomeUrlArgMalformed(kw) ==
    \E f \in UrlFields \cap DOMAIN kw :
        IF f \in OptHttpUrlFields THEN ~WellFormed(f, kw[f])
        ELSE IF last.op = "update" THEN (kw[f] # None /\ ~WellFormed(f, kw[f][1]))
        ELSE ~WellFormed(f, kw[f])

\* C10: a create or update call given a malformed value for a URL field
\* fails with a validation error before any persistence interaction: no row
\* is added or modified and no flush happens.
C10_MalformedUrlRejected ==
    (last.op \in {"create", "update"} /\ SomeUrlArgMalformed(last.args))
    => /\ last.raised
       /\ ~last.flushed
       /\ last.result = None

\* the identifiers of the rows of a list
IdsOf(found) == {found[k].id : k \in 1 .. Len(found)}

\* the identifiers of the stored rows of a name
Named(name) == {i \in DOMAIN Rows : Rows[i].name = name}

\* the identifiers list_by_name(name, is_active) may return with the default
\* limit and offset, one set for each scan order
Listed(name, is_active) ==
    {IdsOf(ListResult(db_session, [name |-> name, is_active |-> is_active], order)) :
        order \in ScanOrders(Matching(db_session, name, is_active))}

\* the unfiltered list is the disjoint union of the two filtered lists and
\* omits no row of the name
UnionOfFiltered(name) ==
    \A all \in Listed(name, None), act \in Listed(name, Some(TRUE)), inact \in Listed(name, Some(FALSE)) :
        /\ all = act \cup inact
        /\ act \cap inact = {}
        /\ all = Named(name)

\* C5 as stated: for a set of rows of any size sharing a name and the default
\* limit and offset, list_by_name(name, is_active=None) returns exactly the
\* union of the is_active=True and is_active=False results, which share no
\* row, and no row of that name is omitted.
C5_UnionAnySize == \A n \in Names : UnionOfFiltered(n)

\* C5 as amended: the same, for a set of at most 50 rows (the default limit)
\* sharing a name.
C5_UnionWithinLimit ==
    \A n \in Names : Cardinality(Named(n)) <= DefaultLimit => UnionOfFiltered(n)

\* list_by_name was called with the default page on a name that has as many
\* rows as the default limit, active and inactive ones
C5_Witness ==
    /\ last.op = "list_by_name"
    /\ DOMAIN last.args \cap {"limit", "offset"} = {}
    /\ Cardinality(Named(last.args.name)) = DefaultLimit
    /\ \E i, j \in Named(last.args.name) : Rows[i].is_active /\ ~Rows[j].is_active

\* row i has the name and, when a filter is given, the active flag asked for
Wanted(i, name, is_active) ==
    /\ Rows[i].name = name
    /\ (is_active # None => Rows[i].is_active = is_active[1])

\* the rows of a query result are stored rows with their current values, of
\* the name and flag asked for
Current(found, name, is_active) ==
    \A k \in 1 .. Len(found) :
        /\ found[k].id \in DOMAIN Rows
        /\ found[k] = Rows[found[k].id]
        /\ Wanted(found[k].id, name, is_active)

\* A (row 1) and B (row 2) are the two versions of the name "x"; B was
\* activated and A deactivated by set_active
SwitchedToB ==
    /\ DOMAIN Rows = {1, 2}
    /\ Rows[1].name = "x" /\ Rows[2].name = "x"
    /\ ~Rows[1].is_active /\ Rows[2].is_active
    /\ {1, 2} \subseteq touched

\* C7: queries by name reflect the current active flags after any sequence
\* of create, set_active and update: list_by_name(name, is_active=v) returns
\* only rows of that name whose current flag is v, and get_by_name_first
\* returns such a row whenever one exists and None only when none exists
\* (an unset is_active places no condition); with A active and B inactive
\* under one name, after set_active(B, true) and set_active(A, false),
\* list_by_name(name, is_active=true) returns exactly {B}.
C7_QueriesReflectFlags ==
    /\ \A n \in Names, a \in ActiveFilters :
          \A order \in ScanOrders(Matching(db_session, n, a)) :
              LET found == ListResult(db_session, [name |-> n, is_active |-> a], order)
                  first == FirstResult(db_session, order)
              IN  /\ Current(found, n, a)
                  /\ ~first.raised
                  /\ (first.result = None) <=> ~(\E i \in DOMAIN Rows : Wanted(i, n, a))
                  /\ first.result # None => Current(first.result, n, a)
    /\ last.op = "list_by_name" =>
          Current(last.result, last.args.name, Param(last.args, "is_active", None))
    /\ last.op = "get_by_name_first" =>
          /\ ~last.raised
          /\ Current(last.result, last.args.name, Param(last.args, "is_active", None))
          /\ (last.result = None) <=>
                ~(\E i \in DOMAIN Rows : Wanted(i, last.args.name, Param(last.args, "is_active", None)))
    /\ SwitchedToB => Listed("x", Some(TRUE)) = {{2}}

\* after the switch from A to B the active rows of the name were listed
C7_Witness ==
    /\ SwitchedToB
    /\ last.op = "list_by_name"
    /\ last.args.name = "x"
    /\ Param(last.args, "is_active", None) = Some(TRUE)
    /\ IdsOf(last.result) = {2}

\* C8: no store operation commits or rolls back the caller's session:
\* create, update and set_active only stage their change with a flush, so
\* the change is visible to later store reads in the same session, the
\* committed state changes only when the caller commits, and a caller
\* rollback discards every change staged since the last commit (a created
\* row is then absent for get_by_id).
C8_FlushOnly ==
    [][/\ \A op \in StoreOps : Called(op) =>
             /\ db_session'.committed = db_session.committed
             /\ db_session'.pending = NoRows
             /\ \A i \in DOMAIN Rows : i \in DOMAIN Rows'
             /\ last'.flushed =>
                   /\ last'.result # None
                   /\ SessionGet(db_session', last'.result[1].id) = last'.result
                   /\ last'.result[1].id \in Matching(db_session', last'.result[1].name, None)
                   /\ Rows' # Rows \/ last'.op # "create"
       /\ db_session'.committed # db_session.committed => last'.op = "commit"
       /\ Called("commit") => db_session'.committed = Rows /\ Rows' = Rows
       /\ Called("rollback") =>
             /\ Rows' = db_session.committed
             /\ \A i \in DOMAIN Rows \ DOMAIN db_session.committed :
                   SessionGet(db_session', i) = None
             /\ \A i \in DOMAIN db_session.committed :
                   SessionGet(db_session', i) = Some(db_session.committed[i])]_vars

\* the caller has rolled back: a row created after its last commit is gone,
\* and a committed row is back at its committed values
C8_Witness ==
    /\ last.op = "rollback"
    /\ db_session.committed # NoRows
    /\ Rows = db_session.committed
    /\ Cardinality(DOMAIN Rows) < issued
    /\ touched \cap DOMAIN Rows # {}

C13_StandardHasSecret ==
    \A id \in DOMAIN Rows :
        Rows[id].issuer_type = STANDARD => ~Falsy(Rows[id].client_secret)

\* the limits the pages are cut with
PageLimits == {1, 2}

\* the identifiers of page k (offset k * limit) of list_by_name, for the scan
\* order the database takes for that call
PageIds(name, is_active, limit, k, order) ==
    IdsOf(ListResult(db_session,
                     [name |-> name, is_active |-> is_active, limit |-> limit, offset |-> k * limit],
                     order))

\* C14: list_by_name returns a page of the matching rows: at most limit rows,
\* taken after skipping the first offset matching rows of one fixed
\* ordering, so that for an unchanged store the pages at offsets 0, limit,
\* 2*limit, ... are pairwise disjoint and together contain every matching
\* row exactly once; when nothing matches or offset is at least the number
\* of matches the result is an empty list.
C14_PagesPartition ==
    \A n \in Names, a \in ActiveFilters, limit \in PageLimits :
        LET matches == Matching(db_session, n, a)
            pages == 0 .. Cardinality(matches)
        IN  \A orders \in [pages -> ScanOrders(matches)] :
                /\ \A k \in pages :
                      /\ Cardinality(PageIds(n, a, limit, k, orders[k])) <= limit
                      /\ PageIds(n, a, limit, k, orders[k]) \subseteq matches
                      /\ k * limit >= Cardinality(matches)
                            => Len(ListResult(db_session,
                                              [name |-> n, is_active |-> a, limit |-> limit,
                                               offset |-> k * limit], orders[k])) = 0
                /\ \A j, k \in pages :
                      j # k => PageIds(n, a, limit, j, orders[j]) \cap PageIds(n, a, limit, k, orders[k]) = {}
                /\ UNION {PageIds(n, a, limit, k, orders[k]) : k \in pages} = matches

\* the rows a step adds or changes
Changed == {j \in DOMAIN Rows' : j \notin DOMAIN Rows \/ Rows'[j] # Rows[j]}

\* C15: every store operation performs at most one staged mutation touching
\* at most one row: the reads leave every row unchanged; create adds exactly
\* one row and modifies none; set_active and update modify at most the row
\* identified by flow_id and apply all their field writes in one flush, so
\* no state with a part of one call's changes staged is left behind.
C15_OneStagedMutation ==
    [][\A op \in StoreOps : Called(op) =>
          /\ db_session'.pending = NoRows
          /\ DOMAIN Rows \subseteq DOMAIN Rows'
          /\ Cardinality(Changed) <= 1
          /\ op \in {"get_by_id", "get_by_name_first", "list_by_name"}
                => (db_session' = db_session /\ ~last'.flushed)
          /\ op = "create"
                => /\ \A j \in DOMAIN Rows : Rows'[j] = Rows[j]
                   /\ ~last'.raised => (Cardinality(DOMAIN Rows') = Cardinality(DOMAIN Rows) + 1
                                        /\ last'.flushed)
          /\ op \in {"set_active", "update"}
                => /\ DOMAIN Rows' = DOMAIN Rows
                   /\ Changed \subseteq {last'.args.flow_id}
                   /\ last'.flushed <=> last'.args.flow_id \in DOMAIN Rows
                   /\ (op = "update" /\ last'.args.flow_id \in DOMAIN Rows)
                         => \A f \in UpdateFields \cap DOMAIN last'.args :
                               last'.args[f] # None =>
                                  Rows'[last'.args.flow_id][f] =
                                     (IF f \in NullableFields THEN last'.args[f] ELSE last'.args[f][1])]_vars

\* an update of several fields at once was applied to one of two rows
C15_Witness ==
    /\ last.op = "update"
    /\ last.flushed
    /\ Cardinality(DOMAIN last.args) >= 6
    /\ Cardinality(DOMAIN Rows) = 2
    /\ last.result[1].timeout = 30
    /\ last.result[1].cdp_gui_base_url = Some(UrlA)

\* the rows after set_active(flow_id, is_active) has run alone, from lookup
\* to flush, on the rows given
RunAlone(rows, flow_id, is_active) ==
    IF flow_id \in DOMAIN rows
    THEN [i \in DOMAIN rows |-> IF i = flow_id THEN [rows[i] EXCEPT !.is_active = is_active] ELSE rows[i]]
    ELSE rows

BothDone == \A t \in Tasks : tasks.run[t].pc = "done"

\* C12: two concurrent set_active calls on different identifiers do not
\* interfere: for every interleaving of their lookup, flag-write and flush
\* steps the final rows are those of running the two calls one after the
\* other, in either order: each targeted row holds the flag its own call
\* asked for and no other row changes.  Two concurrent calls on the same
\* identifier take no lock (a call that has a step left can always take
\* it), and the final flag is the value one of the two calls asked for.
C12_ConcurrentSetActive ==
    LET a == tasks.run[1]
        b == tasks.run[2]
    IN  /\ \A t \in Tasks : Running(t) => ENABLED TaskStep(t)
        /\ BothDone =>
              /\ DOMAIN Rows = DOMAIN tasks.started
              /\ a.flow_id # b.flow_id =>
                    /\ Rows = RunAlone(RunAlone(tasks.started, a.flow_id, a.is_active), b.flow_id, b.is_active)
                    /\ Rows = RunAlone(RunAlone(tasks.started, b.flow_id, b.is_active), a.flow_id, a.is_active)
                    /\ \A t \in Tasks :
                          tasks.run[t].flow_id \in DOMAIN Rows =>
                             Rows[tasks.run[t].flow_id].is_active = tasks.run[t].is_active
                    /\ \A i \in DOMAIN Rows \ {a.flow_id, b.flow_id} : Rows[i] = tasks.started[i]
              /\ (a.flow_id = b.flow_id /\ a.flow_id \in DOMAIN Rows) =>
                    /\ Rows[a.flow_id].is_active \in {a.is_active, b.is_active}
                    /\ \A f \in Fields \ {"is_active"} : Rows[a.flow_id][f] = tasks.started[a.flow_id][f]
                    /\ \A i \in DOMAIN Rows \ {a.flow_id} : Rows[i] = tasks.started[i]
              /\ \A t \in Tasks :
                    (tasks.run[t].result = None) <=> (tasks.run[t].flow_id \notin DOMAIN Rows)

\* two calls on the two versions of one name have finished, each having
\* changed the flag of its row, the second one activating its row
C12_Witness ==
    /\ BothDone
    /\ tasks.run[1].flow_id = 1 /\ tasks.run[2].flow_id = 2
    /\ {1, 2} \subseteq DOMAIN tasks.started
    /\ Rows[1].name = Rows[2].name
    /\ tasks.started[1].is_active /\ ~tasks.started[2].is_active
    /\ ~Rows[1].is_active /\ Rows[2].is_active

====
